---- MODULE Spec2Model ----
(***************************************************************************)
(* A model of mqtt_tool (src/index.js).  The file holds two revisions of   *)
(* the script: revision 1 (lines 1-192) and revision 2 (lines 194-508).    *)
(* The variable `revision` says which one runs.                            *)
(*                                                                         *)
(* A run is: the synchronous start-up of the script (certificate loading,  *)
(* JWT, capability mode, mqtt.connect), then the events the mqtt client,   *)
(* the timers and readline deliver, one handler at a time.                 *)
(***************************************************************************)
EXTENDS Integers, Sequences, FiniteSets, TLC

VARIABLES
  revision,        \* 1 or 2: which revision of the script runs
  envUrl,          \* process.env.MQTT_URL (NoUrl when unset), a URL record
  envJWT,          \* process.env.JWT ("" when unset)
  command,         \* the command named on the command line (argv)
  batch,           \* 'batch' in argv
  verbose,         \* argv.verbose
  pc,              \* position of the start-up code, "running" or "exited"
  exitCode,        \* the process's exit status once pc = "exited"
  exitCause,       \* which statement ended the process
  MQTT_URL,        \* the module-level MQTT_URL variable
  options,         \* the options object handed to mqtt.connect
  fsCerts,         \* what certs/client.key and certs/client.crt turned out to be
  pkgFile,         \* what require(package.json) found
  pwFile,          \* what reading the password file found
  capEntered,      \* the capability-mode branch (line 277) was taken
  connectCalled,   \* mqtt.connect was called
  connected,       \* the transport is connected
  attempting,      \* a connection attempt is under way
  reconnectPeriod, \* the backoff delay of revision 2 (0: revision 1 has none)
  nClose,          \* close events since the last connect event (or the start)
  base,            \* reconnectPeriod right after the last connect event (or the start)
  setupCount,      \* how many times the connect handler ran the command setup
  lastEvent,       \* the event whose handler ran last
  batchArmed,      \* the batch middleware's timer is pending
  rl,              \* the readline interface: "none", "open" or "closed"
  lines,           \* the lines readline has delivered (purge: the topics array)
  loopIdx,         \* purge: iterations of the for loop started so far
  waiting,         \* purge: the loop is suspended in `await wait(0.05)`
  waitsDone,       \* purge: waits that have completed
  waitsAtPub,      \* purge: waitsDone at the time of each publish
  published,       \* the calls of mqttClient.publish made so far, in order
  unacked,         \* publishes whose completion has not happened yet
  delivered,       \* the messages the client has emitted as 'message' events, in order
  backupFile,      \* the lines of backup.json
  fdPos            \* backup: the file position of each descriptor opened, in lines

envVars  == <<revision, envUrl, envJWT, command, batch, verbose>>
procVars == <<pc, exitCode, exitCause>>
authVars == <<MQTT_URL, options, fsCerts, pkgFile, pwFile, capEntered>>
sessVars == <<connectCalled, connected, attempting, reconnectPeriod, nClose, base, setupCount,
              batchArmed>>
cmdVars  == <<rl, lines, loopIdx, waiting, waitsDone, waitsAtPub, published, unacked>>
subVars  == <<delivered, backupFile, fdPos>>
vars     == <<envVars, procVars, authVars, sessVars, cmdVars, subVars, lastEvent>>

----------------------------------------------------------------------------
(* Bounds of the model *)

MaxCloses == 5   \* consecutive close events without a connect event
MaxSetups == 2   \* command setups (revision 1 repeats the setup on every connect)
MaxTopics == 3   \* lines of a purge input
MaxLines  == 2   \* lines of a restore input

(* Program constants *)

RECONNECT_PERIOD_DEFAULT == 1000
RECONNECT_PERIOD_MAX == 20000

----------------------------------------------------------------------------
(* Values *)

Undefined == [kind |-> "undefined", id |-> "", payload |-> "", version |-> <<>>,
              name |-> ""]

Url(scheme, host) == [scheme |-> scheme, host |-> host]
NoUrl == Url(<<>>, "")
MqttsScheme == <<"m", "q", "t", "t", "s">>
MqttScheme  == <<"m", "q", "t", "t">>
WsScheme    == <<"w", "s">>
WssScheme   == <<"w", "s", "s">>
DefaultUrl    == Url(MqttsScheme, "localhost")
CapabilityUrl == Url(MqttScheme, "localhost")
EnvUrls == {NoUrl, Url(MqttsScheme, "broker"), Url(WsScheme, "broker"),
            Url(WssScheme, "broker")}

(* String.prototype.startsWith on the scheme of a URL *)
StartsWith(s, prefix) ==
  /\ Len(s) >= Len(prefix)
  /\ SubSeq(s, 1, Len(prefix)) = prefix

StartsWithMqtts(url) == StartsWith(url.scheme, MqttsScheme)

GoodJWT == "h.eyJpZCI6InUxIn0.s"
BadJWT  == "not-a-jwt"
EnvJWTs == {"", GoodJWT, BadJWT}

(* decodeJWT: JSON.parse(atob(jwt.split('.')[1])) throws on a malformed token *)
decodeJWT(jwt) ==
  IF jwt = GoodJWT
    THEN [threw |-> FALSE, payload |-> "{id:u1}", id |-> "u1"]
    ELSE [threw |-> TRUE, payload |-> "", id |-> ""]

Granularities == {"undefined", "major", "minor", "patch"}
(* package.version split at the dots: 1.2.3 and 4.5.6.7 *)
PackageVersions == {<<1, 2, 3>>, <<4, 5, 6, 7>>}
PackageFiles ==
  {[kind |-> "unreadable", name |-> "", version |-> <<>>, versionNamespace |-> "undefined"],
   [kind |-> "null", name |-> "", version |-> <<>>, versionNamespace |-> "undefined"]}
  \cup {[kind |-> "json", name |-> "pkg", version |-> v, versionNamespace |-> g] :
          v \in PackageVersions, g \in Granularities}
NotRead == [kind |-> "notread", name |-> "", version |-> <<>>, versionNamespace |-> "undefined"]
PasswordFiles == {"unreadable", "secret"}

(* A variant of the options object without the protocol pin *)
InitialOptions_NoPin ==
  [key |-> "undefined", cert |-> "undefined", username |-> Undefined,
   password |-> "undefined", clientId |-> Undefined, protocolVersion |-> 0,
   reconnectPeriod |-> 0]

(* const options = {rejectUnauthorized: false, protocolVersion: 5}; a field
   that is not set is "undefined", protocolVersion 0 is the deleted field and
   reconnectPeriod 0 the field the script has not set *)
InitialOptions ==
  [key |-> "undefined", cert |-> "undefined", username |-> Undefined,
   password |-> "undefined", clientId |-> Undefined, protocolVersion |-> 5,
   reconnectPeriod |-> 0]

Commands1 == {"sub", "clear", "backup"}
Commands2 == {"sub", "clear", "backup", "purge", "restore"}

----------------------------------------------------------------------------
(* The state after the module-level declarations, for given inputs *)

Start(revs, urls, jwts, cmds, verbs) ==
  /\ revision \in revs
  /\ envUrl \in urls
  /\ envJWT \in jwts
  /\ command \in cmds
  /\ revision = 1 => command \in Commands1
  /\ batch \in BOOLEAN
  /\ verbose \in verbs
  /\ pc = "certs"
  /\ exitCode = 0
  /\ exitCause = "none"
  /\ MQTT_URL = IF envUrl = NoUrl THEN DefaultUrl ELSE envUrl
  /\ options = InitialOptions
  /\ fsCerts = [read |-> FALSE, key |-> FALSE, cert |-> FALSE]
  /\ pkgFile = NotRead
  /\ pwFile = "notread"
  /\ capEntered = FALSE
  /\ connectCalled = FALSE
  /\ connected = FALSE
  /\ attempting = FALSE
  /\ reconnectPeriod = IF revision = 2 THEN RECONNECT_PERIOD_DEFAULT ELSE 0
  /\ nClose = 0
  /\ base = reconnectPeriod
  /\ setupCount = 0
  /\ lastEvent = "start"
  /\ batchArmed = FALSE
  /\ rl = "none"
  /\ lines = <<>>
  /\ loopIdx = 0
  /\ waiting = FALSE
  /\ waitsDone = 0
  /\ waitsAtPub = <<>>
  /\ published = <<>>
  /\ unacked = 0
  /\ delivered = <<>>
  /\ backupFile = <<>>
  /\ fdPos = <<>>

(* process.exit(code), or the death of the process by an uncaught exception *)
Exit(code, cause) ==
  /\ pc' = "exited"
  /\ exitCode' = code
  /\ exitCause' = cause

----------------------------------------------------------------------------
(* Start-up: certificates *)

(* The options after the two readFileSync calls: the key is assigned before
   the certificate is read, so a failing second read leaves the key behind. *)
CertsAfterLoad(opts, keyOk, certOk) ==
  IF ~keyOk THEN opts
  ELSE IF ~certOk THEN [opts EXCEPT !.key = "client.key"]
  ELSE [opts EXCEPT !.key = "client.key", !.cert = "client.crt"]

LoadCerts ==
  /\ pc = "certs"
  /\ IF StartsWithMqtts(MQTT_URL)
       THEN \E keyOk \in BOOLEAN, certOk \in BOOLEAN :
              /\ fsCerts' = [read |-> TRUE, key |-> keyOk, cert |-> certOk]
              /\ options' = CertsAfterLoad(options, keyOk, certOk)
              /\ IF revision = 1 /\ ~(keyOk /\ certOk)
                   THEN Exit(1, "uncaught")      \* revision 1 has no try/catch
                   ELSE /\ pc' = IF revision = 1 THEN "connect" ELSE "jwt"
                        /\ UNCHANGED <<exitCode, exitCause>>
       ELSE /\ pc' = IF revision = 1 THEN "connect" ELSE "jwt"
            /\ UNCHANGED <<exitCode, exitCause, fsCerts, options>>
  /\ UNCHANGED <<envVars, subVars, MQTT_URL, pkgFile, pwFile, capEntered, sessVars, cmdVars, lastEvent>>

(* Start-up: JWT (revision 2) *)

JWTUsername(d) == [Undefined EXCEPT !.kind = "jwt", !.id = d.id, !.payload = d.payload]

ApplyJWT ==
  /\ pc = "jwt"
  /\ IF envJWT # ""
       THEN LET d == decodeJWT(envJWT) IN
            IF d.threw
              THEN /\ Exit(1, "uncaught")
                   /\ UNCHANGED options
              ELSE /\ options' = [options EXCEPT !.username = JWTUsername(d),
                                                 !.password = envJWT]
                   /\ pc' = "capability"
                   /\ UNCHANGED <<exitCode, exitCause>>
       ELSE /\ pc' = "capability"
            /\ UNCHANGED <<exitCode, exitCause, options>>
  /\ UNCHANGED <<envVars, subVars, MQTT_URL, fsCerts, pkgFile, pwFile, capEntered, sessVars, cmdVars,
                 lastEvent>>

(* Start-up: capability mode (revision 2) *)

(* Variants of the capability condition that forget one of its tests *)
CapabilityCondition_IgnoresKey ==
  /\ envUrl = NoUrl
  /\ options.username.kind = "undefined"

CapabilityCondition_IgnoresJWT ==
  /\ envUrl = NoUrl
  /\ options.key = "undefined"

(* !process.env.MQTT_URL && !options.key && !options.username *)
CapabilityCondition ==
  /\ envUrl = NoUrl
  /\ options.key = "undefined"
  /\ options.username.kind = "undefined"

(* A variant that ignores the configured granularity *)
versionLength_AlwaysPatch(pkg) == 3

(* versionLengthByLevel[package.config?.versionNamespace || 'patch'] *)
versionLength(pkg) ==
  LET level == IF pkg.versionNamespace = "undefined" THEN "patch" ELSE pkg.versionNamespace
  IN CASE level = "major" -> 1
       [] level = "minor" -> 2
       [] level = "patch" -> 3

(* package.version.split('.').slice(0, versionLength).join('.') *)
versionNS(pkg) ==
  LET n == versionLength(pkg)
  IN SubSeq(pkg.version, 1, IF n < Len(pkg.version) THEN n ELSE Len(pkg.version))

CapabilityClientId(pkg) ==
  [Undefined EXCEPT !.kind = "clientId", !.name = pkg.name, !.version = versionNS(pkg)]

CapabilityUsername(pkg) == [Undefined EXCEPT !.kind = "capability", !.version = pkg.version]

(* A variant that swallows the read failure, as the certificate loading does *)
ReadPassword_Caught(pw) ==
  [threw |-> FALSE, value |-> IF pw = "unreadable" THEN "undefined" ELSE pw]

(* fs.readFileSync of the password file: throws when it cannot be read *)
ReadPassword(pw) == [threw |-> pw = "unreadable", value |-> pw]

CapabilityMode ==
  /\ pc = "capability"
  /\ IF CapabilityCondition
       THEN /\ capEntered' = TRUE
            /\ \E pkg \in PackageFiles :
                 /\ pkgFile' = pkg
                 /\ IF pkg.kind = "unreadable"
                      THEN /\ Exit(1, "uncaught")        \* require() throws
                           /\ UNCHANGED <<MQTT_URL, options, pwFile>>
                    ELSE IF pkg.kind = "null"
                      THEN /\ Exit(1, "noAuth")          \* process.exit(1), line 285
                           /\ UNCHANGED <<MQTT_URL, options, pwFile>>
                    ELSE \E pw \in PasswordFiles :
                           LET r == ReadPassword(pw)
                               withId == [options EXCEPT !.clientId = CapabilityClientId(pkg)]
                           IN /\ MQTT_URL' = CapabilityUrl
                              /\ pwFile' = pw
                              /\ IF r.threw
                                   THEN /\ options' = withId
                                        /\ Exit(1, "uncaught")
                                   ELSE /\ options' =
                                             [withId EXCEPT !.password = r.value,
                                                            !.username = CapabilityUsername(pkg),
                                                            !.protocolVersion = 0]
                                        /\ pc' = "connect"
                                        /\ UNCHANGED <<exitCode, exitCause>>
       ELSE /\ pc' = "connect"
            /\ UNCHANGED <<exitCode, exitCause, MQTT_URL, options, pkgFile, pwFile, capEntered>>
  /\ UNCHANGED <<envVars, subVars, fsCerts, sessVars, cmdVars, lastEvent>>

(* Start-up: the backoff hook (revision 2) *)

(* The hook: options.reconnectPeriod = reconnectPeriod; return url *)
transformWsUrl(opts, period) == [opts EXCEPT !.reconnectPeriod = period]

(* The mqtt client calls options.transformWsUrl when it builds the URL of a
   websocket stream (ws, wss); a tcp or tls stream (mqtt, mqtts) takes host
   and port from the options and never calls it. *)
UsesWebSocket(url) == StartsWith(url.scheme, WsScheme)

(* The options after the client has built the stream of a connection attempt *)
BuildStream(opts) ==
  IF revision = 2 /\ UsesWebSocket(MQTT_URL)
    THEN transformWsUrl(opts, reconnectPeriod)
    ELSE opts

(* Start-up: mqtt.connect(MQTT_URL, options), which starts the first attempt *)
MqttConnect ==
  /\ pc = "connect"
  /\ pc' = "running"
  /\ connectCalled' = TRUE
  /\ attempting' = TRUE
  /\ options' = BuildStream(options)
  /\ UNCHANGED <<envVars, subVars, exitCode, exitCause, MQTT_URL, fsCerts, pkgFile, pwFile,
                 capEntered, connected, reconnectPeriod, nClose, base, setupCount, batchArmed,
                 cmdVars, lastEvent>>

----------------------------------------------------------------------------
(* The session: events of the mqtt client *)

Running == pc = "running"

(* Revision 1 registers the connect handler with on(): it runs on every
   connect event.  Revision 2 registers it with once(): it runs on the first
   connect event only. *)
ConnectHandlerRuns == revision = 1 \/ setupCount = 0

(* reconnectPeriod after the close handler of revision 2 *)
BackoffOnClose(period) ==
  IF period < RECONNECT_PERIOD_MAX THEN period * 2 ELSE period

(* Revision 1 listens to 'error' (console.log); revision 2 registers no
   listener, and an EventEmitter that emits 'error' without one throws. *)
HasErrorListener == revision = 1

(* 'connect': the handler, when it is still registered, resets the delay
   (revision 2) and runs yargs: the batch middleware, then the command. *)
TransportConnect ==
  /\ Running
  /\ attempting
  /\ attempting' = FALSE
  /\ revision = 1 => setupCount < MaxSetups
  /\ connected' = TRUE
  /\ nClose' = 0
  /\ lastEvent' = "connect"
  /\ IF ConnectHandlerRuns
       THEN /\ reconnectPeriod' = IF revision = 2 THEN RECONNECT_PERIOD_DEFAULT
                                                  ELSE reconnectPeriod
            /\ setupCount' = setupCount + 1
            /\ batchArmed' = (batchArmed \/ batch)
            /\ rl' = IF command \in {"purge", "restore"} THEN "open" ELSE rl
            /\ IF command = "backup"      \* fs.openSync('backup.json', 'w')
                 THEN /\ backupFile' = <<>>
                      /\ fdPos' = Append(fdPos, 0)
                 ELSE UNCHANGED <<backupFile, fdPos>>
       ELSE UNCHANGED <<reconnectPeriod, setupCount, batchArmed, rl, backupFile, fdPos>>
  /\ base' = reconnectPeriod'
  /\ UNCHANGED <<envVars, delivered, procVars, authVars, connectCalled, lines, loopIdx, waiting,
                 waitsDone, waitsAtPub, published, unacked>>

(* The reconnect timer fires: the client builds a new stream *)
ConnectionAttempt ==
  /\ Running
  /\ ~connected
  /\ ~attempting
  /\ attempting' = TRUE
  /\ options' = BuildStream(options)
  /\ lastEvent' = "attempt"
  /\ UNCHANGED <<envVars, subVars, procVars, MQTT_URL, fsCerts, pkgFile, pwFile, capEntered,
                 connectCalled, connected, reconnectPeriod, nClose, base, setupCount,
                 batchArmed, cmdVars>>

StreamOpen == connected \/ attempting

(* 'close': emitted when the connection drops and after every failed attempt *)
TransportClose ==
  /\ Running
  /\ StreamOpen
  /\ nClose < MaxCloses
  /\ connected' = FALSE
  /\ attempting' = FALSE
  /\ nClose' = nClose + 1
  /\ reconnectPeriod' = IF revision = 2 THEN BackoffOnClose(reconnectPeriod)
                                        ELSE reconnectPeriod
  /\ lastEvent' = "close"
  /\ UNCHANGED <<envVars, subVars, procVars, authVars, connectCalled, base, setupCount, batchArmed,
                 cmdVars>>

(* 'error': logged when there is a listener, an uncaught exception otherwise *)
TransportError ==
  /\ Running
  /\ lastEvent' = "error"
  /\ IF HasErrorListener
       THEN UNCHANGED procVars
       ELSE Exit(1, "uncaught")
  /\ UNCHANGED <<envVars, subVars, authVars, sessVars, cmdVars>>

(* 'disconnect': a DISCONNECT packet from the broker, logged *)
BrokerDisconnect ==
  /\ Running
  /\ connected
  /\ lastEvent' = "disconnect"
  /\ UNCHANGED <<envVars, subVars, procVars, authVars, sessVars, cmdVars>>

(* The batch middleware's timer fires: exit() *)
BatchTimeout ==
  /\ Running
  /\ batchArmed
  /\ batchArmed' = FALSE
  /\ Exit(0, "batch")
  /\ lastEvent' = "other"
  /\ UNCHANGED <<envVars, subVars, authVars, connectCalled, connected, attempting,
                 reconnectPeriod, nClose, base, setupCount, cmdVars>>

----------------------------------------------------------------------------
(* Publishing *)

NullPayload == [isNull |-> TRUE, bytes |-> <<>>]
Bytes(b) == [isNull |-> FALSE, bytes |-> b]

(* One call of mqttClient.publish(topic, payload, {retain}) *)
PublishCall(topic, payload, retain) == [topic |-> topic, payload |-> payload, retain |-> retain]

(* The completion of a publish: the packet has been written to the broker.
   Neither purge nor restore passes a callback to publish. *)
PublishAck ==
  /\ Running
  /\ connected
  /\ unacked > 0
  /\ unacked' = unacked - 1
  /\ lastEvent' = "other"
  /\ UNCHANGED <<envVars, subVars, procVars, authVars, sessVars, rl, lines, loopIdx, waiting,
                 waitsDone, waitsAtPub, published>>

----------------------------------------------------------------------------
(* purge (revision 2) *)

Whitespace == {" ", "\t"}

RECURSIVE trimStart(_)
trimStart(s) ==
  IF s # <<>> /\ Head(s) \in Whitespace THEN trimStart(Tail(s)) ELSE s

RECURSIVE trimEnd(_)
trimEnd(s) ==
  IF s # <<>> /\ s[Len(s)] \in Whitespace THEN trimEnd(SubSeq(s, 1, Len(s) - 1)) ELSE s

(* A variant that leaves the line as it is *)
trim_Identity(s) == s

(* String.prototype.trim *)
trim(s) == trimEnd(trimStart(s))

TopicPlain  == <<"a">>
TopicPadded == <<" ", "a", " ", "b", "\t">>
TopicLines  == {TopicPlain, TopicPadded}

(* rl.on('line', t => topics.push(t)) *)
PurgeLine ==
  /\ Running
  /\ command = "purge"
  /\ rl = "open"
  /\ Len(lines) < MaxTopics
  /\ \E t \in TopicLines : lines' = Append(lines, t)
  /\ lastEvent' = "other"
  /\ UNCHANGED <<envVars, subVars, procVars, authVars, sessVars, rl, loopIdx, waiting, waitsDone,
                 waitsAtPub, published, unacked>>

(* One iteration of the for loop, up to its `await wait(0.05)` *)
PurgeIteration(i) ==
  /\ published' = Append(published, PublishCall(trim(lines[i]), NullPayload, TRUE))
  /\ waitsAtPub' = Append(waitsAtPub, waitsDone')
  /\ unacked' = unacked + 1
  /\ loopIdx' = i
  /\ waiting' = TRUE

(* rl.on('close', async () => ...): runs up to the first await, or, with no
   topics at all, straight to process.exit(0) *)
PurgeClose ==
  /\ Running
  /\ command = "purge"
  /\ rl = "open"
  /\ rl' = "closed"
  /\ lastEvent' = "other"
  /\ waitsDone' = waitsDone
  /\ IF lines = <<>>
       THEN /\ Exit(0, "purgeDone")
            /\ UNCHANGED <<published, waitsAtPub, unacked, loopIdx, waiting>>
       ELSE /\ PurgeIteration(1)
            /\ UNCHANGED procVars
  /\ UNCHANGED <<envVars, subVars, authVars, sessVars, lines>>

(* A variant whose process.exit(0) sits inside the loop body *)
PurgeWaitDone_ExitInLoop ==
  /\ Running
  /\ waiting
  /\ waitsDone' = waitsDone + 1
  /\ lastEvent' = "other"
  /\ waiting' = FALSE
  /\ Exit(0, "purgeDone")
  /\ UNCHANGED <<published, waitsAtPub, unacked, loopIdx>>
  /\ UNCHANGED <<envVars, subVars, authVars, sessVars, rl, lines>>

(* The timer of wait(0.05) fires: the loop goes on with the next topic, or,
   after the last one, reaches process.exit(0) *)
PurgeWaitDone ==
  /\ Running
  /\ waiting
  /\ waitsDone' = waitsDone + 1
  /\ lastEvent' = "other"
  /\ IF loopIdx < Len(lines)
       THEN /\ PurgeIteration(loopIdx + 1)
            /\ UNCHANGED procVars
       ELSE /\ waiting' = FALSE
            /\ Exit(0, "purgeDone")
            /\ UNCHANGED <<published, waitsAtPub, unacked, loopIdx>>
  /\ UNCHANGED <<envVars, subVars, authVars, sessVars, rl, lines>>

----------------------------------------------------------------------------
(* restore (revision 2) *)

(* A base64 string is a sequence of sextets (0..63); Pad stands for '=' *)
Pad == 64

RECURSIVE BeforePad(_)
BeforePad(s) ==
  IF s = <<>> \/ Head(s) = Pad THEN <<>> ELSE <<Head(s)>> \o BeforePad(Tail(s))

RECURSIVE DecodeSextets(_)
DecodeSextets(s) ==
  IF Len(s) < 2 THEN <<>>
  ELSE IF Len(s) = 2 THEN <<s[1] * 4 + s[2] \div 16>>
  ELSE IF Len(s) = 3 THEN <<s[1] * 4 + s[2] \div 16, (s[2] % 16) * 16 + s[3] \div 4>>
  ELSE <<s[1] * 4 + s[2] \div 16, (s[2] % 16) * 16 + s[3] \div 4, (s[3] % 4) * 64 + s[4]>>
         \o DecodeSextets(SubSeq(s, 5, Len(s)))

(* A variant that drops the bytes of a final, padded group *)
Base64Decode_DropsTail(s) ==
  LET t == BeforePad(s) IN DecodeSextets(SubSeq(t, 1, Len(t) - (Len(t) % 4)))

(* Buffer.from(string, 'base64') *)
Base64Decode(s) == DecodeSextets(BeforePad(s))

(* Characters of a topic that matter to JSON and to readline *)
Quote     == "quote"        \* U+0022
Backslash == "backslash"    \* U+005C
LineSep   == "U+2028"       \* LINE SEPARATOR

(* The escapes of JSON.parse inside a string: a backslash and the character
   it stands before become that character *)
RECURSIVE JSONUnescape(_)
JSONUnescape(t) ==
  IF t = <<>> THEN <<>>
  ELSE IF Head(t) = Backslash /\ Len(t) >= 2
    THEN <<t[2]>> \o JSONUnescape(SubSeq(t, 3, Len(t)))
    ELSE <<Head(t)>> \o JSONUnescape(Tail(t))

RestoreTopicAB == <<"a", "/", "b">>
RestoreTopicC  == <<"c">>
LineHi      == [kind |-> "record", topic |-> RestoreTopicAB, payload |-> <<26, 6, 36, Pad>>,
                retain |-> TRUE]                                   \* "aGk="
LineEmpty   == [kind |-> "record", topic |-> RestoreTopicC, payload |-> <<>>,
                retain |-> FALSE]                                  \* ""
LineBinary  == [kind |-> "record", topic |-> RestoreTopicAB,
                payload |-> <<0, 15, 60, 0, 63, 48, Pad, Pad>>,
                retain |-> FALSE]                                  \* "AP8A/w=="
LineGarbage == [kind |-> "garbage", topic |-> <<>>, payload |-> <<>>, retain |-> FALSE]
LineNoPayload == [kind |-> "nopayload", topic |-> RestoreTopicC, payload |-> <<>>,
                  retain |-> TRUE]
RestoreLines == {LineHi, LineEmpty, LineBinary, LineGarbage, LineNoPayload}

(* JSON.parse(line) throws on a line that is not JSON; Buffer.from(undefined,
   'base64') throws on a record without a payload field. *)
LineThrows(l) == l.kind = "garbage" \/ l.kind = "nopayload"

(* mqttClient.publish(data.topic, Buffer.from(data.payload, 'base64'),
   {retain: data.retain}) with data = JSON.parse(line) *)
RestorePublish(l) ==
  PublishCall(JSONUnescape(l.topic), Bytes(Base64Decode(l.payload)), l.retain)

(* rl.on('line', ...): parse, publish, do not wait *)
RestoreLine ==
  /\ Running
  /\ command = "restore"
  /\ rl = "open"
  /\ Len(lines) < MaxLines
  /\ \E l \in RestoreLines :
       /\ lines' = Append(lines, l)
       /\ IF LineThrows(l)
            THEN /\ Exit(1, "uncaught")
                 /\ UNCHANGED <<published, unacked>>
            ELSE /\ published' = Append(published, RestorePublish(l))
                 /\ unacked' = unacked + 1
                 /\ UNCHANGED procVars
  /\ lastEvent' = "other"
  /\ UNCHANGED <<envVars, subVars, authVars, sessVars, rl, loopIdx, waiting, waitsDone, waitsAtPub>>

(* rl.on('close', () => process.exit(0)) *)
RestoreClose ==
  /\ Running
  /\ command = "restore"
  /\ rl = "open"
  /\ rl' = "closed"
  /\ Exit(0, "restoreDone")
  /\ lastEvent' = "other"
  /\ UNCHANGED <<envVars, subVars, authVars, sessVars, lines, loopIdx, waiting, waitsDone, waitsAtPub,
                 published, unacked>>

----------------------------------------------------------------------------
(* sub, clear and backup: the 'message' handlers *)

MaxDeliveries == 2   \* 'message' events of a run

SubscriptionCommands == {"sub", "clear", "backup"}

(* Messages the broker may deliver: topic, payload bytes, retain flag *)
Message(topic, bytes, retain) == [topic |-> topic, bytes |-> bytes, retain |-> retain]
MsgHi     == Message(<<"a", "/", "b">>, <<104, 105>>, TRUE)          \* "hi"
MsgQuoted == Message(<<"a", Quote>>, <<>>, FALSE)                    \* empty payload
MsgBinary == Message(<<"a", "/", "b">>, <<0, 255, 0, 255>>, FALSE)   \* not UTF-8
MsgLineSep == Message(<<"a", LineSep, "b">>, <<123, 125>>, TRUE)     \* "{}"
Messages == {MsgHi, MsgQuoted, MsgBinary, MsgLineSep}

(* JSON.parse(payload.toString()) succeeds on these payloads only *)
JSONPayloads == {<<123, 125>>}

(* sub with --verbose: payload.length > 0 ? JSON.parse(payload.toString()) : null *)
VerboseThrows(m) == m.bytes # <<>> /\ m.bytes \notin JSONPayloads

(* payload.toString('base64') *)
RECURSIVE Base64Encode(_)
Base64Encode(b) ==
  IF b = <<>> THEN <<>>
  ELSE IF Len(b) = 1 THEN <<b[1] \div 4, (b[1] % 4) * 16, Pad, Pad>>
  ELSE IF Len(b) = 2
    THEN <<b[1] \div 4, (b[1] % 4) * 16 + b[2] \div 16, (b[2] % 16) * 4, Pad>>
  ELSE <<b[1] \div 4, (b[1] % 4) * 16 + b[2] \div 16, (b[2] % 16) * 4 + b[3] \div 64,
         b[3] % 64>> \o Base64Encode(SubSeq(b, 4, Len(b)))

(* JSON.stringify of a string: a quote and a backslash get a backslash in
   front; U+2028 is written as it is *)
RECURSIVE JSONEscape(_)
JSONEscape(t) ==
  IF t = <<>> THEN <<>>
  ELSE IF Head(t) \in {Quote, Backslash}
    THEN <<Backslash, Head(t)>> \o JSONEscape(Tail(t))
    ELSE <<Head(t)>> \o JSONEscape(Tail(t))

(* packet.payload = payload.toString('base64'); JSON.stringify(packet) *)
BackupRecord(m) ==
  [kind |-> "record", topic |-> JSONEscape(m.topic), payload |-> Base64Encode(m.bytes),
   retain |-> m.retain]

(* What a write beyond the end of the file leaves in between *)
Hole == [kind |-> "hole", topic |-> <<>>, payload |-> <<>>, retain |-> FALSE]

(* fs.writeSync(fd, line) at the descriptor's position.  Positions are counted
   in lines. *)
WriteAt(file, pos, line) ==
  IF pos < Len(file)
    THEN [file EXCEPT ![pos + 1] = line]
    ELSE file \o [i \in 1..(pos - Len(file)) |-> Hole] \o <<line>>

(* Every registered backup handler writes the line through its own descriptor *)
RECURSIVE WriteAll(_, _, _, _)
WriteAll(file, positions, k, line) ==
  IF k > Len(positions) THEN file
  ELSE WriteAll(WriteAt(file, positions[k], line), positions, k + 1, line)

(* if (payload && packet.retain) mqttClient.publish(topic, null, {retain:
   packet.retain}): payload is a Buffer, which is truthy even when empty *)
ClearPublishes(m, handlers) ==
  IF m.retain
    THEN [k \in 1..handlers |-> PublishCall(m.topic, NullPayload, m.retain)]
    ELSE <<>>

(* 'message': every handler registered by a command setup runs *)
DeliverMessage ==
  /\ Running
  /\ connected
  /\ command \in SubscriptionCommands
  /\ setupCount >= 1
  /\ Len(delivered) < MaxDeliveries
  /\ \E m \in Messages :
       /\ delivered' = Append(delivered, m)
       /\ IF command = "sub" /\ verbose /\ VerboseThrows(m)
            THEN Exit(1, "uncaught")
            ELSE UNCHANGED procVars
       /\ IF command = "clear"
            THEN /\ published' = published \o ClearPublishes(m, setupCount)
                 /\ unacked' = unacked + Len(ClearPublishes(m, setupCount))
            ELSE UNCHANGED <<published, unacked>>
       /\ IF command = "backup"
            THEN /\ backupFile' = WriteAll(backupFile, fdPos, 1, BackupRecord(m))
                 /\ fdPos' = [k \in 1..Len(fdPos) |-> fdPos[k] + 1]
            ELSE UNCHANGED <<backupFile, fdPos>>
  /\ lastEvent' = "message"
  /\ UNCHANGED <<envVars, authVars, sessVars, rl, lines, loopIdx, waiting, waitsDone,
                 waitsAtPub>>

(* process.on('SIGINT', () => exit()) *)
Sigint ==
  /\ Running
  /\ Exit(0, "sigint")
  /\ lastEvent' = "other"
  /\ UNCHANGED <<envVars, subVars, authVars, sessVars, cmdVars>>

(* readline ends a line at \n, \r and also at U+2028 and U+2029: a record
   whose topic holds one reaches the 'line' handler as two pieces, neither of
   which is JSON *)
HasLineSeparator(t) == \E i \in 1..Len(t) : t[i] = LineSep

ReadlineLines(l) ==
  IF HasLineSeparator(l.topic) THEN <<LineGarbage, LineGarbage>> ELSE <<l>>

----------------------------------------------------------------------------
(* The program run with a subscription command *)

Init == Start({1, 2}, EnvUrls, EnvJWTs, {"sub"}, {FALSE})

Next ==
  \/ LoadCerts
  \/ ApplyJWT
  \/ CapabilityMode
  \/ MqttConnect
  \/ ConnectionAttempt
  \/ TransportConnect
  \/ TransportClose
  \/ TransportError
  \/ BrokerDisconnect
  \/ BatchTimeout

Spec == Init /\ [][Next]_vars

(* The program run with the purge command *)

InitPurge == Start({2}, {Url(WsScheme, "broker")}, {"", GoodJWT}, {"purge"}, {FALSE})

NextPurge ==
  \/ Next
  \/ PurgeLine
  \/ PurgeClose
  \/ PurgeWaitDone
  \/ PublishAck

SpecPurge == InitPurge /\ [][NextPurge]_vars

(* The program run with the restore command *)

InitRestore == Start({2}, {Url(WsScheme, "broker")}, {"", GoodJWT}, {"restore"}, {FALSE})

NextRestore ==
  \/ Next
  \/ RestoreLine
  \/ RestoreClose
  \/ PublishAck

SpecRestore == InitRestore /\ [][NextRestore]_vars

(* sub, clear and backup with messages arriving and an interrupt *)

InitSubscribe ==
  Start({1, 2}, {Url(WsScheme, "broker")}, {""}, SubscriptionCommands, BOOLEAN)

NextSubscribe ==
  \/ Next
  \/ DeliverMessage
  \/ PublishAck
  \/ Sigint

SpecSubscribe == InitSubscribe /\ [][NextSubscribe]_vars

----------------------------------------------------------------------------
(* Properties of the reconnect backoff and of the session *)

RECURSIVE Pow2(_)
Pow2(n) == IF n = 0 THEN 1 ELSE 2 * Pow2(n - 1)

Min(a, b) == IF a < b THEN a ELSE b

(* C1: starting from the default delay, after N consecutive close events
   with no connect event in between the delay is min(1000 * 2^N, 20000). *)
C1_DelayAfterNCloses ==
  (revision = 2 /\ base = RECONNECT_PERIOD_DEFAULT)
    => reconnectPeriod = Min(RECONNECT_PERIOD_DEFAULT * Pow2(nClose), RECONNECT_PERIOD_MAX)

(* C2: in any state that immediately follows a connect event, the first or
   a later one, the delay is the default. *)
C2_ConnectResetsDelay ==
  (revision = 2 /\ lastEvent = "connect") => reconnectPeriod = RECONNECT_PERIOD_DEFAULT

(* C3: the command setup runs exactly once, on the first connect event, and
   no later connect event runs it again. *)
C3_SetupRunsOnce ==
  /\ setupCount <= 1
  /\ lastEvent = "connect" => setupCount = 1

(* C4: right after a close or an error event the process is still running,
   so that another connection attempt follows. *)
C4_TransportEventsNotFatal ==
  lastEvent \in {"close", "error"} => (pc = "running" /\ exitCause = "none")

----------------------------------------------------------------------------
(* Properties of the authentication resolution *)

Resolved == revision = 2 /\ connectCalled

HasCertificate == options.key # "undefined" \/ options.cert # "undefined"
HasJWTCredentials == options.username.kind = "jwt"
HasCapabilityCredentials ==
  options.clientId.kind # "undefined" \/ options.username.kind = "capability"
HasNoCredentials == ~HasCertificate /\ ~HasJWTCredentials /\ ~HasCapabilityCredentials

(* The AuthModes whose credential fields the connection config carries *)
ModesInEffect ==
  (IF HasCertificate THEN {"Certificate"} ELSE {})
    \cup (IF HasJWTCredentials THEN {"JWT"} ELSE {})
    \cup (IF HasCapabilityCredentials THEN {"Capability"} ELSE {})
    \cup (IF envUrl # NoUrl /\ HasNoCredentials THEN {"ExplicitURL"} ELSE {})

(* C5, as stated: once resolution has completed exactly one AuthMode is in
   effect, the config carries the credential fields of that mode only, and a
   client key or certificate is attached only when no JWT is present. *)
C5_ExactlyOneMode ==
  Resolved => (Cardinality(ModesInEffect) = 1 /\ (HasCertificate => envJWT = ""))

(* C5, amended: at least one AuthMode is in effect; the only two modes that
   can be in effect together are Certificate and JWT; Capability is never
   combined with another mode; and a client key is attached exactly when the
   URL starts with mqtts and the key file is readable, JWT or no JWT. *)
C5_ModesAmended ==
  Resolved =>
    /\ ModesInEffect # {}
    /\ Cardinality(ModesInEffect) > 1 => ModesInEffect = {"Certificate", "JWT"}
    /\ (options.key # "undefined") <=>
         ((envUrl = NoUrl \/ envUrl.scheme = MqttsScheme) /\ fsCerts.read /\ fsCerts.key)

C5_Witness == Resolved /\ ModesInEffect = {"Certificate", "JWT"} /\ pc = "running"

(* C6: capability mode is entered if and only if no MQTT_URL was supplied, no
   client key was loaded and no JWT was supplied; JWT-derived username and
   password are never overwritten by, or combined with, capability values. *)
C6_CapabilityIff ==
  (revision = 2 /\ pc \notin {"certs", "jwt", "capability"}) =>
    /\ capEntered <=> (envUrl = NoUrl /\ ~(fsCerts.read /\ fsCerts.key) /\ envJWT = "")
    /\ (envJWT # "" /\ connectCalled) =>
         /\ options.username = JWTUsername(decodeJWT(envJWT))
         /\ options.password = envJWT
         /\ options.clientId = Undefined
         /\ ~capEntered

C6_Witness ==
  /\ capEntered /\ pc = "running" /\ options.username.kind = "capability"
  /\ envUrl = NoUrl /\ envJWT = "" /\ fsCerts.read /\ ~fsCerts.key

(* C7: when capability mode is entered and the package metadata or the
   password file cannot be read, the process has terminated with a nonzero
   status, mqtt.connect was never called and no connection was attempted. *)
C7_CapabilityReadFatal ==
  (capEntered /\ (pkgFile.kind \in {"unreadable", "null"} \/ pwFile = "unreadable")) =>
    /\ pc = "exited"
    /\ exitCode # 0
    /\ ~connectCalled
    /\ ~connected
    /\ nClose = 0
    /\ lastEvent = "start"

C7_Witness ==
  /\ capEntered /\ pkgFile.kind = "json" /\ pwFile = "unreadable"
  /\ pc = "exited" /\ exitCode = 1

----------------------------------------------------------------------------
(* Properties of purge *)

(* What each input line of the model is once its surrounding whitespace is removed *)
ExpectedTopic(l) == IF l = TopicPadded THEN <<"a", " ", "b">> ELSE <<"a">>

(* C8: the publishes of purge are, in input order, one per topic line: the
   i-th goes to the trimmed i-th line with a null payload and retain = true,
   exactly i - 1 waits have completed before it, and when the loop has ended
   there are exactly K of them. *)
C8_PurgePublishesInOrder ==
  command = "purge" =>
    /\ Len(published) <= Len(lines)
    /\ \A i \in 1..Len(published) :
         /\ published[i] = [topic |-> ExpectedTopic(lines[i]),
                            payload |-> [isNull |-> TRUE, bytes |-> <<>>],
                            retain |-> TRUE]
         /\ waitsAtPub[i] = i - 1
    /\ exitCause = "purgeDone" => (Len(published) = Len(lines) /\ waitsDone = Len(lines))

C8_Witness ==
  /\ command = "purge" /\ exitCause = "purgeDone"
  /\ Len(published) >= 2
  /\ \E i \in 1..Len(lines) : lines[i] = TopicPadded

(* C9, as stated: once the input of K topics has been read to its end, the
   process does not exit, through the loop's end or through the batch timer,
   before every one of the K topics has been published. *)
C9_NoExitBeforeLastPublish ==
  (command = "purge" /\ rl = "closed" /\ pc = "exited"
     /\ exitCause \in {"purgeDone", "batch"})
    => Len(published) = Len(lines)

(* C9, amended: the loop's own process.exit(0) is reached only after the
   K-th publish and K completed waits; the loop advances with the waits
   alone, whatever number of publishes has completed; an exit before the
   K-th publish that is not a crash is the batch timer's, and happens only
   when --batch was given. *)
C9_OnlyBatchTimerExitsEarly ==
  command = "purge" =>
    /\ exitCause = "purgeDone" =>
         (rl = "closed" /\ Len(published) = Len(lines) /\ waitsDone = Len(lines))
    /\ Len(published) = loopIdx
    /\ waiting => waitsDone = loopIdx - 1
    /\ (pc = "exited" /\ (rl # "closed" \/ Len(published) < Len(lines)))
         => (exitCause \in {"batch", "uncaught"} /\ (exitCause = "batch" => batch))

C9_Witness ==
  /\ command = "purge" /\ batch /\ exitCause = "purgeDone"
  /\ Len(lines) >= 2 /\ unacked = Len(published)

----------------------------------------------------------------------------
(* Properties of restore *)

(* The publish each well-formed line of the model stands for *)
ExpectedPublish(l) ==
  CASE l = LineHi -> [topic |-> <<"a", "/", "b">>,
                      payload |-> [isNull |-> FALSE, bytes |-> <<104, 105>>],
                      retain |-> TRUE]
    [] l = LineEmpty -> [topic |-> <<"c">>,
                         payload |-> [isNull |-> FALSE, bytes |-> <<>>],
                         retain |-> FALSE]
    [] l = LineBinary -> [topic |-> <<"a", "/", "b">>,
                          payload |-> [isNull |-> FALSE, bytes |-> <<0, 255, 0, 255>>],
                          retain |-> FALSE]

WellFormedCount == Cardinality({i \in 1..Len(lines) : lines[i].kind = "record"})

(* C10: the publishes of restore are exactly one per well-formed line read,
   in file order, each with that line's topic, base64-decoded payload and
   retain flag, whether or not earlier publishes have completed: the sequence
   is a function of the lines alone. *)
C10_RestoreReplaysLines ==
  command = "restore" =>
    /\ Len(published) = WellFormedCount
    /\ \A i \in 1..Len(published) : published[i] = ExpectedPublish(lines[i])

C10_Witness ==
  /\ command = "restore"
  /\ Len(published) = 2 /\ unacked = 2
  /\ lines[1] = LineBinary /\ lines[2] = LineHi

(* C11: a restore input line that is not JSON, or that has no payload
   field, is skipped: it does not end the process, so the lines after it are
   still read and published. *)
C11_MalformedLineSkipped ==
  (command = "restore" /\ lines # <<>> /\ LineThrows(lines[Len(lines)])
     /\ lastEvent = "other" /\ rl = "open")
    => (pc = "running" /\ exitCause = "none")

----------------------------------------------------------------------------
(* Properties of the subscription commands *)

(* C12: during backup the file holds exactly one line per delivered message,
   in delivery order: line i is the record of the i-th delivery, whatever
   drops and reconnects happened in between. *)
C12_BackupOneLinePerDelivery ==
  (command = "backup" /\ setupCount >= 1) =>
    /\ Len(backupFile) = Len(delivered)
    /\ \A i \in 1..Len(delivered) :
         /\ backupFile[i].kind = "record"
         /\ backupFile[i].retain = delivered[i].retain
         /\ Base64Decode(backupFile[i].payload) = delivered[i].bytes
         /\ JSONUnescape(backupFile[i].topic) = delivered[i].topic

(* What restore does with one line of the backup file *)
RestoreOfBackupLine(l) ==
  LET ls == ReadlineLines(l)
  IN IF Len(ls) = 1 /\ ~LineThrows(ls[1])
       THEN [threw |-> FALSE, publish |-> RestorePublish(ls[1])]
       ELSE [threw |-> TRUE, publish |-> PublishCall(<<>>, NullPayload, FALSE)]

(* C13: the line backup writes for a delivered message, read by restore,
   gives a publish with the same topic, the same payload bytes and the same
   retain flag. *)
C13_BackupRestoreRoundTrip ==
  (command = "backup" /\ revision = 2) =>
    \A i \in 1..Len(delivered) :
      LET r == RestoreOfBackupLine(BackupRecord(delivered[i]))
      IN /\ i <= Len(backupFile)
         /\ backupFile[i] = BackupRecord(delivered[i])
         /\ ~r.threw
         /\ r.publish.topic = delivered[i].topic
         /\ r.publish.payload = [isNull |-> FALSE, bytes |-> delivered[i].bytes]
         /\ r.publish.retain = delivered[i].retain

(* The same for messages whose topic holds no U+2028 *)
C13_RoundTripWithoutLineSeparator ==
  (command = "backup" /\ revision = 2) =>
    \A i \in 1..Len(delivered) :
      LET r == RestoreOfBackupLine(backupFile[i])
      IN delivered[i] # MsgLineSep =>
           /\ ~r.threw
           /\ r.publish.topic = delivered[i].topic
           /\ r.publish.payload = [isNull |-> FALSE, bytes |-> delivered[i].bytes]
           /\ r.publish.retain = delivered[i].retain

(* The deliveries so far that carried the retain flag, in order *)
RECURSIVE RetainedOf(_)
RetainedOf(ms) ==
  IF ms = <<>> THEN <<>>
  ELSE IF Head(ms).retain THEN <<Head(ms)>> \o RetainedOf(Tail(ms))
  ELSE RetainedOf(Tail(ms))

(* C14: in clear the publishes are exactly one per delivery whose retain
   flag was set, to that delivery's topic with a null payload and retain set,
   and none for the other deliveries, whatever reconnects happened. *)
C14_ClearOncePerRetained ==
  command = "clear" =>
    /\ Len(published) = Len(RetainedOf(delivered))
    /\ \A i \in 1..Len(published) :
         published[i] = [topic |-> RetainedOf(delivered)[i].topic,
                         payload |-> [isNull |-> TRUE, bytes |-> <<>>],
                         retain |-> TRUE]

(* C15: a process running sub, clear or backup ends only by an interrupt or
   by the batch timer. *)
C15_SubscriptionEndsOnlyByInterruptOrBatch ==
  (command \in {"sub", "clear", "backup"} /\ connectCalled /\ pc = "exited") =>
    exitCause \in {"sigint", "batch"}

----------------------------------------------------------------------------
(* Further properties of the backoff delay and of the resolution *)

(* C16: in every reachable state of revision 2 the delay lies between
   RECONNECT_PERIOD_DEFAULT and RECONNECT_PERIOD_MAX. *)
C16_DelayWithinBounds ==
  revision = 2 =>
    (RECONNECT_PERIOD_DEFAULT <= reconnectPeriod /\ reconnectPeriod <= RECONNECT_PERIOD_MAX)

(* C17: in the config handed to mqtt.connect the protocol version is 5
   unless capability mode was entered; when it was, and only then, the
   protocol version is absent and the URL is mqtt://localhost. *)
C17_ProtocolPin ==
  connectCalled =>
    /\ capEntered =>
         (options.protocolVersion = 0 /\ MQTT_URL = Url(<<"m", "q", "t", "t">>, "localhost"))
    /\ ~capEntered =>
         /\ options.protocolVersion = 5
         /\ MQTT_URL = (IF envUrl = NoUrl THEN Url(<<"m", "q", "t", "t", "s">>, "localhost")
                                          ELSE envUrl)
         /\ MQTT_URL # Url(<<"m", "q", "t", "t">>, "localhost")

C17_Witness ==
  /\ revision = 2 /\ capEntered /\ connectCalled /\ connected
  /\ options.protocolVersion = 0 /\ MQTT_URL.scheme = <<"m", "q", "t", "t">>

(* The first components of a split version that a granularity keeps *)
ExpectedVersionNS(v, g) ==
  CASE g = "major" -> <<v[1]>>
    [] g = "minor" -> <<v[1], v[2]>>
    [] g \in {"patch", "undefined"} -> <<v[1], v[2], v[3]>>

(* C18: in capability mode the client identifier is the package name and
   the first 1, 2 or 3 components of the package version for granularity
   major, minor or patch, and 3 when no granularity is configured; package
   pkg at 1.2.3 with no granularity gets pkg/1.2.3. *)
C18_ClientIdVersionNS ==
  (capEntered /\ pkgFile.kind = "json") =>
    /\ options.clientId.kind = "clientId"
    /\ options.clientId.name = pkgFile.name
    /\ options.clientId.version = ExpectedVersionNS(pkgFile.version, pkgFile.versionNamespace)
    /\ (pkgFile.version = <<1, 2, 3>> /\ pkgFile.versionNamespace = "undefined")
         => (options.clientId.name = "pkg" /\ options.clientId.version = <<1, 2, 3>>)

C18_Witness ==
  /\ capEntered /\ connectCalled /\ pkgFile.versionNamespace = "minor"
  /\ pkgFile.version = <<4, 5, 6, 7>> /\ options.clientId.version = <<4, 5>>

(* C19: while a connection attempt of revision 2 is under way, the first
   one included, the reconnect period in the transport's options is the
   current delay: the hook has set it for this attempt. *)
C19_HookSetsPeriodAtEveryAttempt ==
  (revision = 2 /\ Running /\ attempting) => options.reconnectPeriod = reconnectPeriod

(* The frame half of C19: a step that starts an attempt leaves the delay as
   it is, and only the close and connect handlers change it. *)
C19_OnlyCloseAndConnectChangeDelay ==
  [][/\ attempting' /\ ~attempting => reconnectPeriod' = reconnectPeriod
     /\ reconnectPeriod' # reconnectPeriod => lastEvent' \in {"close", "connect"}]_vars

(* C20: once the certificates have been loaded the config holds the client
   key and the client certificate, or neither; and when not both files were
   readable, capability mode is entered exactly as it is with no files. *)
C20_KeyAndCertTogether ==
  (revision = 2 /\ pc # "certs") =>
    /\ (options.key # "undefined") <=> (options.cert # "undefined")
    /\ (fsCerts.read /\ ~(fsCerts.key /\ fsCerts.cert)
          /\ pc \notin {"jwt", "capability"} /\ envUrl = NoUrl /\ envJWT = "")
         => capEntered

====
